---------------------------- MODULE Spec2Model ----------------------------
(***************************************************************************)
(* Model of the configuration / state-synchronisation layer of the KNoT    *)
(* virtual thing: properties.c (src/unnamed/part_000) and the earlier      *)
(* loader of src/src/device.c.                                             *)
(*                                                                         *)
(* A configuration source (a "file") is                                    *)
(*     [groups |-> [group name -> [key -> value]], order |-> Seq(name)]    *)
(* where order is the enumeration order of the data-item groups.  A key    *)
(* that is absent from a group is absent from the group's DOMAIN.          *)
(*                                                                         *)
(* The storage engine (storage.c), the in-memory accessors of the newer    *)
(* device.c (device_set_*, device_clear_*, device_data_item_lookup, ...)   *)
(* and the protocol library (knot_schema_is_valid, knot_event_is_valid)    *)
(* are not part of the sources at hand; they are modelled from the         *)
(* storage contract and the data model of the specification.               *)
(***************************************************************************)
EXTENDS Integers, Sequences, FiniteSets, TLC

VARIABLES
    credFile,    \* the credentials configuration source
    deviceFile,  \* the device configuration source
    cloudFile,   \* the cloud configuration source
    thing,       \* the Thing Model (struct knot_thing of properties.c)
    loaded,      \* whether the last run of the Loader succeeded
    open_fds,    \* number of storage handles currently open
    nupdates,    \* number of configuration commands applied so far
    version,     \* which loader the program has: "properties.c", "device.c"
    legacy,      \* the static thing of device.c
    last         \* record of the last public operation (history)

vars ==
    <<credFile, deviceFile, cloudFile, thing, loaded, open_fds, nupdates,
      version, legacy, last>>

----------------------------------------------------------------------------
(* Bounds of the model *)

\* number of data-item groups in the device source
MaxGroups == 2
\* number of configuration commands applied in one behaviour
MaxUpdates == 1

----------------------------------------------------------------------------
(* Program constants *)

EINVAL == 22
KNOT_PROTOCOL_TOKEN_LEN == 40

EMPTY_STRING == ""

CREDENTIALS_GROUP == "Credentials"
CREDENTIALS_THING_ID == "ThingId"
CREDENTIALS_THING_TOKEN == "ThingToken"

----------------------------------------------------------------------------
(* Storage collaborator.  An io record threads one open source through a   *)
(* handler: the file's contents, the log of the writes and removals        *)
(* attempted so far, the set of write positions that fail, the value an    *)
(* uninitialised int holds in this call, and the result code of the last   *)
(* storage call.                                                           *)

storage_begin(file, faults, garbage) ==
    [file |-> file, log |-> <<>>, faults |-> faults, garbage |-> garbage,
     rc |-> 0]

HasKey(io, group, key) ==
    /\ group \in DOMAIN io.file.groups
    /\ key \in DOMAIN io.file.groups[group]

\* number of writes attempted so far
NWrites(io) == Len(SelectSeq(io.log, LAMBDA e : e.kind = "write"))

\* Let(v, LAMBDA x : e) is e with x standing for the value of v, which is
\* computed once: "x = v; e" of the C code.
Value(S) == CHOOSE v \in S : TRUE
Let(v, F(_)) == Value({F(x) : x \in {v}})

\* storage_write_key_{int,string,...}: atomic single-key write.  The n-th
\* write of the call fails iff n is in io.faults; a failed write leaves the
\* key as it was and returns a negative code.
storage_write_key(io0, group, key, value) ==
    LET write(io) ==
            LET n  == NWrites(io) + 1
                ok == n \notin io.faults
                g  == io.file.groups[group]
                g2 == [k \in DOMAIN g \cup {key} |->
                            IF k = key THEN value ELSE g[k]]
            IN  [io EXCEPT
                    !.log  = Append(@, [kind |-> "write", group |-> group,
                                        key |-> key, ok |-> ok]),
                    !.file = IF ok THEN [@ EXCEPT !.groups[group] = g2]
                             ELSE @,
                    !.rc   = IF ok THEN 0 ELSE -EINVAL]
    IN  Value({write(io) : io \in {io0}})

\* storage_remove_key: the key is dropped from the group.
storage_remove_key(io0, group, key) ==
    LET remove(io) ==
            LET g  == io.file.groups[group]
                g2 == [k \in DOMAIN g \ {key} |-> g[k]]
            IN  [io EXCEPT
                    !.log  = Append(@, [kind |-> "remove", group |-> group,
                                        key |-> key, ok |-> TRUE]),
                    !.file = [@ EXCEPT !.groups[group] = g2]]
    IN  Value({remove(io) : io \in {io0}})

\* storage_read_key_string: the value, or NULL when the key is absent.
NULL == "<NULL>"
storage_read_key_string(io, group, key) ==
    IF HasKey(io, group, key) THEN io.file.groups[group][key] ELSE NULL

\* storage_read_key_int: rc > 0 and the value when the key is present;
\* rc = 0 when it is absent, and then the caller's variable is not written:
\* it keeps whatever the uninitialised automatic variable held.
storage_read_key_int(io, group, key) ==
    IF HasKey(io, group, key)
    THEN [rc |-> 1, val |-> io.file.groups[group][key]]
    ELSE [rc |-> 0, val |-> io.garbage]

----------------------------------------------------------------------------
(* Credential manager *)

\* device_clear_thing_id / device_clear_thing_token: in-memory only.
device_clear_thing_id(t) == [t EXCEPT !.id = EMPTY_STRING]
device_clear_thing_token(t) == [t EXCEPT !.token = EMPTY_STRING]

\* device_set_thing_credentials: in-memory only.
device_set_thing_credentials(t, id, token) ==
    [t EXCEPT !.id = IF id = NULL THEN EMPTY_STRING ELSE id,
              !.token = IF token = NULL THEN EMPTY_STRING ELSE token]

\* mutation of erase_thing_id: the in-memory id is cleared whatever the
\* outcome of the persisted write
erase_thing_id_unconditional(t, io) ==
    Let(storage_write_key(io, CREDENTIALS_GROUP, CREDENTIALS_THING_ID,
                          EMPTY_STRING), LAMBDA w :
        [thing |-> device_clear_thing_id(t), io |-> w, rc |-> w.rc])

erase_thing_id(t, io) ==
    Let(storage_write_key(io, CREDENTIALS_GROUP, CREDENTIALS_THING_ID,
                          EMPTY_STRING), LAMBDA w :
        [thing |-> IF w.rc < 0 THEN t ELSE device_clear_thing_id(t),
         io |-> w, rc |-> w.rc])

erase_thing_token(t, io) ==
    Let(storage_write_key(io, CREDENTIALS_GROUP, CREDENTIALS_THING_TOKEN,
                          EMPTY_STRING), LAMBDA w :
        [thing |-> IF w.rc < 0 THEN t ELSE device_clear_thing_token(t),
         io |-> w, rc |-> w.rc])

\* mutation of clear_credentials_body: the id is erased even when the
\* token could not be
clear_credentials_body_both(t, io) ==
    Let(erase_thing_token(t, io), LAMBDA a :
    Let(erase_thing_id(a.thing, a.io), LAMBDA b :
        [thing |-> b.thing, io |-> b.io,
         rc |-> IF a.rc < 0 \/ b.rc < 0 THEN -EINVAL ELSE b.rc]))

\* properties_clear_credentials, after a successful open: a failed erase
\* goes to the error label
clear_credentials_body(t, io) ==
    Let(erase_thing_token(t, io), LAMBDA a :
        IF a.rc < 0
        THEN [thing |-> a.thing, io |-> a.io, rc |-> -EINVAL]
        ELSE Let(erase_thing_id(a.thing, a.io), LAMBDA b :
                IF b.rc < 0
                THEN [thing |-> b.thing, io |-> b.io, rc |-> -EINVAL]
                ELSE [thing |-> b.thing, io |-> b.io, rc |-> b.rc]))

\* properties_store_credentials, after the length check and a successful
\* open.  The result of the roll-back write is not looked at.
store_credentials_body(io, id, token) ==
    Let(storage_write_key(io, CREDENTIALS_GROUP, CREDENTIALS_THING_TOKEN,
                          token), LAMBDA a :
        IF a.rc < 0
        THEN [io |-> a, rc |-> -EINVAL]
        ELSE Let(storage_write_key(a, CREDENTIALS_GROUP,
                                   CREDENTIALS_THING_ID, id), LAMBDA b :
                IF b.rc < 0
                THEN [io |-> storage_write_key(b, CREDENTIALS_GROUP,
                                               CREDENTIALS_THING_TOKEN,
                                               EMPTY_STRING),
                      rc |-> -EINVAL]
                ELSE [io |-> b, rc |-> b.rc]))

\* mutation of TokenTooLong: the length check is dropped
TokenTooLong_never(token) == FALSE

\* strlen(token) > KNOT_PROTOCOL_TOKEN_LEN
TokenTooLong(token) == Len(token) > KNOT_PROTOCOL_TOKEN_LEN

----------------------------------------------------------------------------
(* Value types, event flags, key names *)

KNOT_VALUE_TYPE_INT == 1
KNOT_VALUE_TYPE_FLOAT == 2
KNOT_VALUE_TYPE_BOOL == 3
KNOT_VALUE_TYPE_RAW == 4
KNOT_VALUE_TYPE_INT64 == 5
KNOT_VALUE_TYPE_UINT == 6
KNOT_VALUE_TYPE_UINT64 == 7

\* the event flags are a bit set; the model keeps the set of the bits' names
KNOT_EVT_FLAG_TIME == "TIME"
KNOT_EVT_FLAG_LOWER_THRESHOLD == "LOWER_THRESHOLD"
KNOT_EVT_FLAG_UPPER_THRESHOLD == "UPPER_THRESHOLD"
KNOT_EVT_FLAG_CHANGE == "CHANGE"
KNOT_EVT_FLAG_UNREGISTERED == "UNREGISTERED"

EVENT_CHANGE_TRUE == 1

KNOT_PROTOCOL_DEVICE_NAME_LEN == 64
KNOT_PROTOCOL_DATA_NAME_LEN == 64
\* limits of driver.h; only their being exceeded or not matters here
DRIVER_MAX_PROTOCOL_TYPE_LEN == 16
DRIVER_MAX_NAME_TYPE_LEN == 16
DRIVER_MAX_LOGIN_LEN == 16
DRIVER_MAX_PASSWORD_LEN == 16
DRIVER_MAX_IND_TYPE_LEN == 16
DRIVER_MAX_IDENTIFIER_LEN == 16
DRIVER_MAX_TYPE_TAG_LEN == 16
DRIVER_MAX_TYPE_PATH_LEN == 16
DRIVER_MIN_ID == 0
DRIVER_MAX_ID == 255

THING_GROUP == "KNoTThing"
CLOUD_GROUP == "Cloud"
THING_NAME == "Name"
DRIVER_URL == "URL"
DRIVER_PROTOCOL_TYPE == "ProtocolType"
DRIVER_NAME_TYPE == "NameType"
DRIVER_LOGIN == "Login"
DRIVER_PASSWORD == "Password"
DRIVER_SECURITY == "Security"
DRIVER_ID == "DriverId"
DATA_TYPE_ENDIANNESS == "EndiannessType"
RABBIT_URL == "RabbitMQURL"
THING_USER_TOKEN == "UserToken"

SCHEMA_SENSOR_ID == "SensorId"
SCHEMA_SENSOR_NAME == "SensorName"
SCHEMA_VALUE_TYPE == "ValueType"
SCHEMA_UNIT == "Unit"
SCHEMA_TYPE_ID == "TypeId"
EVENT_TIME_SEC == "TimeSec"
EVENT_CHANGE == "Change"
EVENT_LOWER_THRESHOLD == "LowerThreshold"
EVENT_UPPER_THRESHOLD == "UpperThreshold"
DATA_NAME_SPACE_INDEX == "NameSpaceIndex"
DATA_IND_TYPE == "IdentifierType"
DATA_IDENTIFIER == "Identifier"
DATA_IP_TAG_NAME == "TagName"
DATA_IP_PATH == "Path"
DATA_IP_ELEMENT_SIZE == "ElementSize"
DATA_REG_ADDRESS == "RegisterAddress"
DATA_VALUE_TYPE_SIZE == "TypeSize"

\* get_data_item_groups: the data-item groups in the source's order
get_data_item_groups(io) == io.file.order

----------------------------------------------------------------------------
(* Validation rules *)

\* knot_schema_is_valid: 0 iff (type_id, value_type, unit) is in the
\* compatibility table.  The table is the protocol library's; the model
\* keeps a few of its rows.
SchemaTable ==
    { <<1, KNOT_VALUE_TYPE_INT, 1>>, <<1, KNOT_VALUE_TYPE_FLOAT, 1>>,
      <<2, KNOT_VALUE_TYPE_INT, 2>>, <<3, KNOT_VALUE_TYPE_BOOL, 0>>,
      <<4, KNOT_VALUE_TYPE_RAW, 0>> }

knot_schema_is_valid(type_id, value_type, unit) ==
    IF <<type_id, value_type, unit>> \in SchemaTable THEN 0 ELSE -1

\* knot_event_is_valid: 0 iff the event configuration is acceptable.
knot_event_is_valid(flags, value_type, time_sec, lower, upper) ==
    IF \/ /\ value_type = KNOT_VALUE_TYPE_RAW
          /\ flags \cap {KNOT_EVT_FLAG_LOWER_THRESHOLD,
                         KNOT_EVT_FLAG_UPPER_THRESHOLD} # {}
       \/ /\ KNOT_EVT_FLAG_TIME \in flags
          /\ time_sec <= 0
       \/ /\ {KNOT_EVT_FLAG_LOWER_THRESHOLD,
              KNOT_EVT_FLAG_UPPER_THRESHOLD} \subseteq flags
          /\ lower >= upper
    THEN -1 ELSE 0

\* the value types whose bit is set in valid_value_type_mask
valid_value_types(bit_size) ==
    CASE bit_size = 1  -> {KNOT_VALUE_TYPE_BOOL}
      [] bit_size = 8  -> {KNOT_VALUE_TYPE_BOOL, KNOT_VALUE_TYPE_INT,
                           KNOT_VALUE_TYPE_UINT}
      [] bit_size = 16 -> {KNOT_VALUE_TYPE_INT, KNOT_VALUE_TYPE_UINT}
      [] bit_size = 32 -> {KNOT_VALUE_TYPE_INT, KNOT_VALUE_TYPE_UINT,
                           KNOT_VALUE_TYPE_FLOAT}
      [] bit_size = 64 -> {KNOT_VALUE_TYPE_INT64, KNOT_VALUE_TYPE_UINT64,
                           KNOT_VALUE_TYPE_FLOAT}
      [] OTHER -> {}

\* mutation of valid_bit_size: the default case of the switch accepts
valid_bit_size_no_default(bit_size, value_type) ==
    IF bit_size \notin {1, 8, 16, 32, 64} THEN 0
    ELSE IF value_type \in valid_value_types(bit_size) THEN 0 ELSE -EINVAL

\* valid_bit_size: (1 << value_type) & valid_value_type_mask
valid_bit_size(bit_size, value_type) ==
    IF value_type \in valid_value_types(bit_size) THEN 0 ELSE -EINVAL


----------------------------------------------------------------------------
(* Thing Model: in-memory accessors *)

\* the Thing Model before anything is loaded
EmptyThing ==
    [name |-> NULL, driver_url |-> NULL, protocol |-> NULL,
     name_type |-> NULL, login |-> NULL, password |-> NULL,
     security |-> NULL, driver_id |-> 0, endianness |-> 0,
     rabbitmq_url |-> NULL, user_token |-> NULL,
     id |-> EMPTY_STRING, token |-> EMPTY_STRING,
     data_items |-> <<>>, number_sensor |-> 0]

\* device_data_item_lookup: is a data item registered under sensor_id?
device_data_item_lookup(t, sensor_id) ==
    \E i \in 1..Len(t.data_items) : t.data_items[i].sensor_id = sensor_id

\* device_set_new_data_item: a new entry of the registry
device_set_new_data_item(t, sensor_id, schema, event, props) ==
    [t EXCEPT !.data_items =
        Append(@, [sensor_id |-> sensor_id, schema |-> schema,
                   event |-> event, props |-> props])]

\* device_update_config_data_item: the entry registered under the
\* command's sensor id takes the command's schema and, unless the
\* command is flagged unregistered, its event; no entry is added.
device_update_config_data_item(t, config) ==
    [t EXCEPT !.data_items =
        [i \in 1..Len(@) |->
            IF @[i].sensor_id # config.sensor_id THEN @[i]
            ELSE [@[i] EXCEPT
                    !.schema = config.schema,
                    !.event = IF KNOT_EVT_FLAG_UNREGISTERED
                                    \in config.event.event_flags
                              THEN @ ELSE config.event]]]

----------------------------------------------------------------------------
(* Loader: data items *)

\* mutation of set_sensor_id: the duplicate check is dropped
set_sensor_id_no_lookup(t, io, group_id) ==
    Let(storage_read_key_int(io, group_id, SCHEMA_SENSOR_ID), LAMBDA r :
        IF r.rc <= 0 THEN [rc |-> -EINVAL, sensor_id |-> 0]
        ELSE [rc |-> 0, sensor_id |-> r.val])

set_sensor_id(t, io, group_id) ==
    Let(storage_read_key_int(io, group_id, SCHEMA_SENSOR_ID), LAMBDA r :
        IF r.rc <= 0 THEN [rc |-> -EINVAL, sensor_id |-> 0]
        ELSE IF device_data_item_lookup(t, r.val)
        THEN [rc |-> -EINVAL, sensor_id |-> 0]
        ELSE [rc |-> 0, sensor_id |-> r.val])

NoSchema == [name |-> NULL, value_type |-> 0, unit |-> 0, type_id |-> 0]

set_schema(io, group_id) ==
    LET name == storage_read_key_string(io, group_id, SCHEMA_SENSOR_NAME)
        vt   == storage_read_key_int(io, group_id, SCHEMA_VALUE_TYPE)
        un   == storage_read_key_int(io, group_id, SCHEMA_UNIT)
        ty   == storage_read_key_int(io, group_id, SCHEMA_TYPE_ID)
    IN  IF name = NULL \/ name = "" \/ Len(name) >= KNOT_PROTOCOL_DATA_NAME_LEN
        THEN [rc |-> -EINVAL, schema |-> NoSchema]
        ELSE IF vt.rc <= 0 THEN [rc |-> -EINVAL, schema |-> NoSchema]
        ELSE IF un.rc <= 0 THEN [rc |-> -EINVAL, schema |-> NoSchema]
        ELSE IF ty.rc <= 0 THEN [rc |-> -EINVAL, schema |-> NoSchema]
        ELSE IF knot_schema_is_valid(ty.val, vt.val, un.val) # 0
        THEN [rc |-> -EINVAL, schema |-> NoSchema]
        ELSE [rc |-> 0,
              schema |-> [name |-> name, value_type |-> vt.val,
                          unit |-> un.val, type_id |-> ty.val]]

\* the value types the storage reads and writes limits for
StorableValueTypes ==
    {KNOT_VALUE_TYPE_INT, KNOT_VALUE_TYPE_FLOAT, KNOT_VALUE_TYPE_BOOL,
     KNOT_VALUE_TYPE_INT64, KNOT_VALUE_TYPE_UINT, KNOT_VALUE_TYPE_UINT64}

get_lower_limit(io, group_id, value_type) ==
    IF value_type \in StorableValueTypes
    THEN storage_read_key_int(io, group_id, EVENT_LOWER_THRESHOLD)
    ELSE [rc |-> -EINVAL, val |-> io.garbage]

get_upper_limit(io, group_id, value_type) ==
    IF value_type \in StorableValueTypes
    THEN storage_read_key_int(io, group_id, EVENT_UPPER_THRESHOLD)
    ELSE [rc |-> -EINVAL, val |-> io.garbage]

\* memset(&event_aux, 0, sizeof(knot_event))
NoEvent ==
    [event_flags |-> {}, lower_limit |-> 0, upper_limit |-> 0, time_sec |-> 0]

set_event(io, group_id, schema) ==
    LET lo == get_lower_limit(io, group_id, schema.value_type)
        up == get_upper_limit(io, group_id, schema.value_type)
        tm == storage_read_key_int(io, group_id, EVENT_TIME_SEC)
        ch == storage_read_key_int(io, group_id, EVENT_CHANGE)
    IN  Let(   [event_flags |->
                    (IF lo.rc > 0 THEN {KNOT_EVT_FLAG_LOWER_THRESHOLD} ELSE {})
               \cup (IF up.rc > 0 THEN {KNOT_EVT_FLAG_UPPER_THRESHOLD} ELSE {})
               \cup (IF tm.rc > 0 THEN {KNOT_EVT_FLAG_TIME} ELSE {})
               \cup (IF ch.rc > 0 THEN {KNOT_EVT_FLAG_CHANGE} ELSE {}),
               lower_limit |-> IF lo.rc > 0 THEN lo.val ELSE 0,
               upper_limit |-> IF up.rc > 0 THEN up.val ELSE 0,
               time_sec |-> IF tm.rc > 0 THEN tm.val ELSE 0], LAMBDA ev :
        IF knot_event_is_valid(ev.event_flags, schema.value_type,
                               ev.time_sec, ev.lower_limit,
                               ev.upper_limit) # 0
        THEN [rc |-> -EINVAL, event |-> NoEvent]
        ELSE [rc |-> 0, event |-> ev])

\* an optional string key: absent, or shorter than its limit
opt_string_ok(io, group_id, key, max) ==
    LET v == storage_read_key_string(io, group_id, key)
    IN  v = NULL \/ Len(v) < max

NoProps ==
    [namespace |-> 0, element_size |-> 0, reg_addr |-> 0,
     value_type_size |-> 0]

\* set_data_properties; the string fields are checked but, having no part
\* in any property, not kept.
set_data_properties(io, group_id, schema) ==
    LET ns == storage_read_key_int(io, group_id, DATA_NAME_SPACE_INDEX)
        es == storage_read_key_int(io, group_id, DATA_IP_ELEMENT_SIZE)
        ra == storage_read_key_int(io, group_id, DATA_REG_ADDRESS)
        bs == storage_read_key_int(io, group_id, DATA_VALUE_TYPE_SIZE)
    IN  IF ns.val < 0 THEN [rc |-> -EINVAL, props |-> NoProps]
        ELSE IF ~opt_string_ok(io, group_id, DATA_IND_TYPE,
                               DRIVER_MAX_IND_TYPE_LEN)
        THEN [rc |-> -EINVAL, props |-> NoProps]
        ELSE IF ~opt_string_ok(io, group_id, DATA_IDENTIFIER,
                               DRIVER_MAX_IDENTIFIER_LEN)
        THEN [rc |-> -EINVAL, props |-> NoProps]
        ELSE IF ~opt_string_ok(io, group_id, DATA_IP_TAG_NAME,
                               DRIVER_MAX_TYPE_TAG_LEN)
        THEN [rc |-> -EINVAL, props |-> NoProps]
        ELSE IF ~opt_string_ok(io, group_id, DATA_IP_PATH,
                               DRIVER_MAX_TYPE_PATH_LEN)
        THEN [rc |-> -EINVAL, props |-> NoProps]
        ELSE IF es.val < 0 THEN [rc |-> -EINVAL, props |-> NoProps]
        ELSE IF ra.val < 0 THEN [rc |-> -EINVAL, props |-> NoProps]
        ELSE IF bs.val < 0 THEN [rc |-> -EINVAL, props |-> NoProps]
        ELSE IF valid_bit_size(bs.val, schema.value_type) < 0
        THEN [rc |-> -EINVAL, props |-> NoProps]
        ELSE [rc |-> 0,
              props |-> [namespace |-> ns.val, element_size |-> es.val,
                         reg_addr |-> ra.val, value_type_size |-> bs.val]]

\* one iteration of the loop of set_data_items: the group is registered
\* only after its four parts were read and accepted
set_data_item(t, io, group_id) ==
    Let(set_sensor_id(t, io, group_id), LAMBDA sid :
    IF sid.rc < 0 THEN [rc |-> -EINVAL, thing |-> t] ELSE
    Let(set_schema(io, group_id), LAMBDA sch :
    IF sch.rc < 0 THEN [rc |-> -EINVAL, thing |-> t] ELSE
    Let(set_event(io, group_id, sch.schema), LAMBDA evt :
    IF evt.rc < 0 THEN [rc |-> -EINVAL, thing |-> t] ELSE
    Let(set_data_properties(io, group_id, sch.schema), LAMBDA prp :
    IF prp.rc < 0 THEN [rc |-> -EINVAL, thing |-> t] ELSE
    [rc |-> 0,
     thing |-> device_set_new_data_item(t, sid.sensor_id, sch.schema,
                                        evt.event, prp.props)]))))

RECURSIVE set_data_items_from(_, _, _)
set_data_items_from(t, io, i) ==
    LET groups == get_data_item_groups(io)
    IN  IF i > Len(groups)
        THEN [rc |-> 0, thing |-> [t EXCEPT !.number_sensor = Len(groups)]]
        ELSE Let(set_data_item(t, io, groups[i]), LAMBDA r :
                IF r.rc < 0 THEN [rc |-> -EINVAL, thing |-> r.thing]
                ELSE set_data_items_from(r.thing, io, i + 1))

set_data_items(t, io) == set_data_items_from(t, io, 1)


----------------------------------------------------------------------------
(* Loader: thing, driver, cloud and credentials *)

set_thing_name(t, io) ==
    LET v == storage_read_key_string(io, THING_GROUP, THING_NAME)
    IN  IF v = NULL \/ v = "" \/ Len(v) >= KNOT_PROTOCOL_DEVICE_NAME_LEN
        THEN [rc |-> -EINVAL, thing |-> t]
        ELSE [rc |-> 0, thing |-> [t EXCEPT !.name = v]]

set_driver_url(t, io) ==
    LET v == storage_read_key_string(io, THING_GROUP, DRIVER_URL)
    IN  IF v = NULL \/ v = ""
        THEN [rc |-> -EINVAL, thing |-> t]
        ELSE [rc |-> 0, thing |-> [t EXCEPT !.driver_url = v]]

\* set_driver_properties: every field is put into the Thing Model as soon
\* as it is accepted, before the next one is read
set_driver_properties(t, io) ==
    LET protocol  == storage_read_key_string(io, THING_GROUP,
                                             DRIVER_PROTOCOL_TYPE)
        name_type == storage_read_key_string(io, THING_GROUP, DRIVER_NAME_TYPE)
        login     == storage_read_key_string(io, THING_GROUP, DRIVER_LOGIN)
        password  == storage_read_key_string(io, THING_GROUP, DRIVER_PASSWORD)
        security  == storage_read_key_string(io, THING_GROUP, DRIVER_SECURITY)
        id        == storage_read_key_int(io, THING_GROUP, DRIVER_ID)
        endian    == storage_read_key_int(io, THING_GROUP,
                                          DATA_TYPE_ENDIANNESS)
        t1 == [t EXCEPT !.protocol = protocol]
        t2 == [t1 EXCEPT !.name_type = IF name_type = NULL THEN @
                                       ELSE name_type]
        t3 == [t2 EXCEPT !.login = IF login = NULL THEN @ ELSE login]
        t4 == [t3 EXCEPT !.password = IF password = NULL THEN @
                                      ELSE password]
        t5 == [t4 EXCEPT !.security = IF security = NULL THEN @
                                      ELSE security]
        t6 == [t5 EXCEPT !.driver_id = id.val]
        t7 == [t6 EXCEPT !.endianness = endian.val]
    IN  IF protocol = NULL \/ protocol = ""
           \/ Len(protocol) >= DRIVER_MAX_PROTOCOL_TYPE_LEN
        THEN [rc |-> -EINVAL, thing |-> t]
        ELSE IF name_type # NULL /\ Len(name_type) >= DRIVER_MAX_NAME_TYPE_LEN
        THEN [rc |-> -EINVAL, thing |-> t1]
        ELSE IF login # NULL /\ Len(login) >= DRIVER_MAX_LOGIN_LEN
        THEN [rc |-> -EINVAL, thing |-> t2]
        ELSE IF password # NULL /\ Len(password) >= DRIVER_MAX_PASSWORD_LEN
        THEN [rc |-> -EINVAL, thing |-> t3]
        ELSE IF security # NULL /\ Len(security) >= DRIVER_MAX_PASSWORD_LEN
        THEN [rc |-> -EINVAL, thing |-> t4]
        ELSE IF id.val < DRIVER_MIN_ID \/ id.val > DRIVER_MAX_ID
        THEN [rc |-> -EINVAL, thing |-> t5]
        ELSE IF endian.val < 0
        THEN [rc |-> -EINVAL, thing |-> t6]
        ELSE [rc |-> 0, thing |-> t7]

\* mutation of set_thing_properties: a failed load leaves the Thing Model
\* as it was
set_thing_properties_atomic(t, file, open_ok, garbage) ==
    IF ~open_ok
    THEN [rc |-> -EINVAL, thing |-> t, opens |-> 0, closes |-> 0] ELSE
    Let(storage_begin(file, {}, garbage), LAMBDA io :
    Let(set_thing_name(t, io), LAMBDA a :
    IF a.rc < 0
    THEN [rc |-> a.rc, thing |-> t, opens |-> 1, closes |-> 1] ELSE
    Let(set_driver_url(a.thing, io), LAMBDA b :
    IF b.rc < 0
    THEN [rc |-> b.rc, thing |-> t, opens |-> 1, closes |-> 1] ELSE
    Let(set_driver_properties(b.thing, io), LAMBDA c :
    IF c.rc < 0
    THEN [rc |-> c.rc, thing |-> t, opens |-> 1, closes |-> 1] ELSE
    Let(set_data_items(c.thing, io), LAMBDA d :
    [rc |-> d.rc, thing |-> IF d.rc < 0 THEN t ELSE d.thing,
     opens |-> 1, closes |-> 1])))))

\* set_thing_properties: the device source.  opens and closes count the
\* storage_open and storage_close calls made on the path taken.
set_thing_properties(t, file, open_ok, garbage) ==
    IF ~open_ok
    THEN [rc |-> -EINVAL, thing |-> t, opens |-> 0, closes |-> 0] ELSE
    Let(storage_begin(file, {}, garbage), LAMBDA io :
    Let(set_thing_name(t, io), LAMBDA a :
    IF a.rc < 0
    THEN [rc |-> a.rc, thing |-> a.thing, opens |-> 1, closes |-> 1] ELSE
    Let(set_driver_url(a.thing, io), LAMBDA b :
    IF b.rc < 0
    THEN [rc |-> b.rc, thing |-> b.thing, opens |-> 1, closes |-> 1] ELSE
    Let(set_driver_properties(b.thing, io), LAMBDA c :
    IF c.rc < 0
    THEN [rc |-> c.rc, thing |-> c.thing, opens |-> 1, closes |-> 1] ELSE
    Let(set_data_items(c.thing, io), LAMBDA d :
    [rc |-> d.rc, thing |-> d.thing, opens |-> 1, closes |-> 1])))))

set_rabbit_mq_url(t, io) ==
    LET v == storage_read_key_string(io, CLOUD_GROUP, RABBIT_URL)
    IN  IF v = NULL \/ v = ""
        THEN [rc |-> -EINVAL, thing |-> t]
        ELSE [rc |-> 0, thing |-> [t EXCEPT !.rabbitmq_url = v]]

set_thing_user_token(t, io) ==
    LET v == storage_read_key_string(io, CLOUD_GROUP, THING_USER_TOKEN)
    IN  IF v = NULL \/ v = ""
        THEN [rc |-> -EINVAL, thing |-> t]
        ELSE [rc |-> 0, thing |-> [t EXCEPT !.user_token = v]]

set_cloud_properties(t, file, open_ok) ==
    IF ~open_ok
    THEN [rc |-> -EINVAL, thing |-> t, opens |-> 0, closes |-> 0] ELSE
    Let(storage_begin(file, {}, 0), LAMBDA io :
    Let(set_rabbit_mq_url(t, io), LAMBDA a :
    IF a.rc < 0
    THEN [rc |-> a.rc, thing |-> a.thing, opens |-> 1, closes |-> 1] ELSE
    Let(set_thing_user_token(a.thing, io), LAMBDA b :
    [rc |-> b.rc, thing |-> b.thing, opens |-> 1, closes |-> 1])))

set_thing_credentials(t, file, open_ok) ==
    LET io == storage_begin(file, {}, 0)
        thing_id    == storage_read_key_string(io, CREDENTIALS_GROUP,
                                               CREDENTIALS_THING_ID)
        thing_token == storage_read_key_string(io, CREDENTIALS_GROUP,
                                               CREDENTIALS_THING_TOKEN)
    IN  IF ~open_ok
        THEN [rc |-> -EINVAL, thing |-> t, opens |-> 0, closes |-> 0]
        ELSE [rc |-> 0,
              thing |-> device_set_thing_credentials(t, thing_id, thing_token),
              opens |-> 1, closes |-> 1]

\* properties_create_device.  failing is the set of sources whose open
\* fails; source names the source the Loader was in when it returned.
properties_create_device(t, device, cloud, cred, failing, garbage) ==
    Let(set_thing_properties(t, device, "device" \notin failing, garbage),
        LAMBDA a :
    IF a.rc < 0
    THEN [rc |-> a.rc, thing |-> a.thing, source |-> "device",
          opens |-> a.opens, closes |-> a.closes] ELSE
    Let(set_cloud_properties(a.thing, cloud, "cloud" \notin failing),
        LAMBDA b :
    IF b.rc < 0
    THEN [rc |-> b.rc, thing |-> b.thing, source |-> "cloud",
          opens |-> a.opens + b.opens, closes |-> a.closes + b.closes] ELSE
    Let(set_thing_credentials(b.thing, cred, "credentials" \notin failing),
        LAMBDA c :
    IF c.rc < 0
    THEN [rc |-> c.rc, thing |-> c.thing, source |-> "credentials",
          opens |-> a.opens + b.opens + c.opens,
          closes |-> a.closes + b.closes + c.closes]
    ELSE [rc |-> 0, thing |-> c.thing, source |-> "none",
          opens |-> a.opens + b.opens + c.opens,
          closes |-> a.closes + b.closes + c.closes])))


----------------------------------------------------------------------------
(* Updater *)

\* storage_has_unit: 0 when the group holds the key, negative otherwise
storage_has_unit(io, group_id, key) ==
    IF HasKey(io, group_id, key) THEN 0 ELSE -EINVAL

set_limit(io, group_id, key, value_type, value) ==
    IF value_type \in StorableValueTypes
    THEN storage_write_key(io, group_id, key, value)
    ELSE [io EXCEPT !.rc = -EINVAL]

\* mutation of update_event_field: the key of an unset flag is left alone
update_event_field_keep(io, group_id, flag, key, value_type, value, flags) ==
    IF flag \in flags
    THEN IF key \in {EVENT_LOWER_THRESHOLD, EVENT_UPPER_THRESHOLD}
         THEN set_limit(io, group_id, key, value_type, value)
         ELSE storage_write_key(io, group_id, key, value)
    ELSE [io EXCEPT !.rc = 0]

\* one event sub-field: written when its flag is set; otherwise its key is
\* removed when the group holds it
update_event_field(io, group_id, flag, key, value_type, value, flags) ==
    IF flag \in flags
    THEN IF key \in {EVENT_LOWER_THRESHOLD, EVENT_UPPER_THRESHOLD}
         THEN set_limit(io, group_id, key, value_type, value)
         ELSE storage_write_key(io, group_id, key, value)
    ELSE IF storage_has_unit(io, group_id, key) = 0
         THEN [storage_remove_key(io, group_id, key) EXCEPT !.rc = 0]
         ELSE [io EXCEPT !.rc = 0]

\* update_event_data_item: time, change, lower threshold, upper threshold,
\* returning at the first write that fails
update_event_data_item(io, group_id, value_type, event) ==
    Let(update_event_field(io, group_id, KNOT_EVT_FLAG_TIME,
            EVENT_TIME_SEC, value_type, event.time_sec, event.event_flags),
        LAMBDA a :
    IF a.rc < 0 THEN a ELSE
    Let(update_event_field(a, group_id, KNOT_EVT_FLAG_CHANGE,
            EVENT_CHANGE, value_type, EVENT_CHANGE_TRUE, event.event_flags),
        LAMBDA b :
    IF b.rc < 0 THEN b ELSE
    Let(update_event_field(b, group_id, KNOT_EVT_FLAG_LOWER_THRESHOLD,
            EVENT_LOWER_THRESHOLD, value_type, event.lower_limit,
            event.event_flags),
        LAMBDA c :
    IF c.rc < 0 THEN c ELSE
    Let(update_event_field(c, group_id, KNOT_EVT_FLAG_UPPER_THRESHOLD,
            EVENT_UPPER_THRESHOLD, value_type, event.upper_limit,
            event.event_flags),
        LAMBDA d :
    IF d.rc < 0 THEN d ELSE [d EXCEPT !.rc = 0]))))

\* update_schema_data_item: type id, unit, value type, name, returning at
\* the first write that fails
update_schema_data_item(io, group_id, schema) ==
    Let(storage_write_key(io, group_id, SCHEMA_TYPE_ID, schema.type_id),
        LAMBDA a :
    IF a.rc < 0 THEN a ELSE
    Let(storage_write_key(a, group_id, SCHEMA_UNIT, schema.unit),
        LAMBDA b :
    IF b.rc < 0 THEN b ELSE
    Let(storage_write_key(b, group_id, SCHEMA_VALUE_TYPE, schema.value_type),
        LAMBDA c :
    IF c.rc < 0 THEN c ELSE
    storage_write_key(c, group_id, SCHEMA_SENSOR_NAME, schema.name))))

\* mutation of equal_sensor_id: every group that stores an id matches
equal_sensor_id_any(io, group_id, sensor_id) ==
    storage_read_key_int(io, group_id, SCHEMA_SENSOR_ID).rc > 0

equal_sensor_id(io, group_id, sensor_id) ==
    Let(storage_read_key_int(io, group_id, SCHEMA_SENSOR_ID), LAMBDA r :
        IF r.rc <= 0 THEN FALSE ELSE sensor_id = r.val)

\* the position, in enumeration order, of the first group whose stored
\* sensor id equals sensor_id; 0 when there is none
first_equal_group(io, sensor_id) ==
    Let({i \in 1..Len(get_data_item_groups(io)) :
            equal_sensor_id(io, get_data_item_groups(io)[i], sensor_id)},
        LAMBDA hits :
        IF hits = {} THEN 0
        ELSE CHOOSE i \in hits : \A j \in hits : i <= j)

\* mutation of update_found_group: a failed schema write ends the update
update_found_group_stop(io, group_id, config) ==
    Let(update_schema_data_item(io, group_id, config.schema), LAMBDA a :
    IF a.rc < 0 THEN [io |-> a, has_err |-> TRUE] ELSE
    Let(IF KNOT_EVT_FLAG_UNREGISTERED \in config.event.event_flags
        THEN [a EXCEPT !.rc = 0]
        ELSE update_event_data_item(a, group_id, config.schema.value_type,
                                    config.event), LAMBDA b :
    [io |-> b, has_err |-> b.rc < 0]))

\* mutation of update_found_group: a failed schema write goes unreported
update_found_group_forget(io, group_id, config) ==
    Let(update_schema_data_item(io, group_id, config.schema), LAMBDA a :
    Let(IF KNOT_EVT_FLAG_UNREGISTERED \in config.event.event_flags
        THEN [a EXCEPT !.rc = 0]
        ELSE update_event_data_item(a, group_id, config.schema.value_type,
                                    config.event), LAMBDA b :
    [io |-> b, has_err |-> b.rc < 0]))

\* mutation of update_found_group: the unregistered flag is not looked at
update_found_group_always_event(io, group_id, config) ==
    Let(update_schema_data_item(io, group_id, config.schema), LAMBDA a :
    Let(update_event_data_item(a, group_id, config.schema.value_type,
                               config.event), LAMBDA b :
    [io |-> b, has_err |-> a.rc < 0 \/ b.rc < 0]))

\* mutation of update_found_group: the writes go to the first group of the
\* enumeration instead of the group that was found
update_found_group_first(io, group_id, config) ==
    Let(get_data_item_groups(io)[1], LAMBDA first :
    Let(update_schema_data_item(io, first, config.schema), LAMBDA a :
    Let(IF KNOT_EVT_FLAG_UNREGISTERED \in config.event.event_flags
        THEN [a EXCEPT !.rc = 0]
        ELSE update_event_data_item(a, first, config.schema.value_type,
                                    config.event), LAMBDA b :
    [io |-> b, has_err |-> a.rc < 0 \/ b.rc < 0])))

\* the body of the loop of properties_update_data_item for the found group
update_found_group(io, group_id, config) ==
    Let(update_schema_data_item(io, group_id, config.schema), LAMBDA a :
    Let(IF KNOT_EVT_FLAG_UNREGISTERED \in config.event.event_flags
        THEN [a EXCEPT !.rc = 0]
        ELSE update_event_data_item(a, group_id, config.schema.value_type,
                                    config.event), LAMBDA b :
    [io |-> b, has_err |-> a.rc < 0 \/ b.rc < 0]))

\* properties_update_data_item.  found is the position of the group that
\* was updated, 0 when there was none.
properties_update_data_item(t, file, config, open_ok, faults) ==
    IF ~open_ok
    THEN [rc |-> -EINVAL, thing |-> t, file |-> file, log |-> <<>>,
          found |-> 0, opens |-> 0, closes |-> 0] ELSE
    Let(storage_begin(file, faults, 0), LAMBDA io :
    Let(device_update_config_data_item(t, config), LAMBDA t1 :
    Let(first_equal_group(io, config.sensor_id), LAMBDA i :
    IF i = 0
    THEN [rc |-> 0, thing |-> t1, file |-> file, log |-> <<>>,
          found |-> 0, opens |-> 1, closes |-> 1] ELSE
    Let(update_found_group(io, get_data_item_groups(io)[i], config),
        LAMBDA u :
    [rc |-> IF u.has_err THEN -1 ELSE 0, thing |-> t1,
     file |-> u.io.file, log |-> u.io.log,
     found |-> i, opens |-> 1, closes |-> 1]))))

\* properties_clear_credentials
properties_clear_credentials(t, file, open_ok, faults) ==
    IF ~open_ok
    THEN [rc |-> -EINVAL, thing |-> t, file |-> file, log |-> <<>>,
          opens |-> 0, closes |-> 0] ELSE
    Let(clear_credentials_body(t, storage_begin(file, faults, 0)), LAMBDA r :
    [rc |-> r.rc, thing |-> r.thing, file |-> r.io.file,
     log |-> r.io.log, opens |-> 1, closes |-> 1])

\* properties_store_credentials
properties_store_credentials(file, id, token, open_ok, faults) ==
    IF TokenTooLong(token)
    THEN [rc |-> -EINVAL, file |-> file, log |-> <<>>,
          opens |-> 0, closes |-> 0] ELSE
    IF ~open_ok
    THEN [rc |-> -EINVAL, file |-> file, log |-> <<>>,
          opens |-> 0, closes |-> 0] ELSE
    Let(store_credentials_body(storage_begin(file, faults, 0), id, token),
        LAMBDA r :
    [rc |-> r.rc, file |-> r.io.file, log |-> r.io.log,
     opens |-> 1, closes |-> 1])


----------------------------------------------------------------------------
(* The earlier loader, src/src/device.c.  Its Thing Model is the static    *)
(* struct knot_thing of that file; every helper opens the source anew.     *)
(* A run p is [thing, opens, closes, crashed]; env holds what the run      *)
(* meets: the two sources, the result of opening each, whether malloc      *)
(* gives memory, what an uninitialised int holds, and whether an access    *)
(* outside an object ends the process.                                     *)

ENOENT == 2
MODBUS_MIN_SLAVE_ID == 0
MODBUS_MAX_SLAVE_ID == 255

RABBIT_MQ_GROUP == "RabbitMQ"
THING_MODBUS_SLAVE_ID == "ModbusSlaveId"
THING_MODBUS_URL == "ModbusURL"
CONFIG_LOWER_THRESHOLD == "LowerThreshold"
CONFIG_UPPER_THRESHOLD == "UpperThreshold"
CONFIG_TIME_SEC == "TimeSec"
CONFIG_CHANGE == "Change"
MODBUS_REG_ADDRESS == "RegisterAddress"
MODBUS_BIT_OFFSET == "BitOffset"

\* the zero-initialised static thing.  allocated is the number of slots of
\* data_item, -1 while data_item is NULL; data_item maps each slot index
\* that was written to what was written there.
LegacyEmptyThing ==
    [name |-> EMPTY_STRING, rabbitmq_url |-> NULL,
     modbus_slave |-> [id |-> 0, url |-> NULL],
     allocated |-> -1, data_item |-> <<>>]

LegacyStart ==
    [thing |-> LegacyEmptyThing, opens |-> 0, closes |-> 0, crashed |-> FALSE]

storage_open(p, env, source) ==
    IF env.open_err[source] < 0
    THEN [p |-> p, fd |-> env.open_err[source]]
    ELSE [p |-> [p EXCEPT !.opens = @ + 1], fd |-> 1]

storage_close(p) == [p EXCEPT !.closes = @ + 1]

DeviceIo(env) == storage_begin(env.device, {}, env.garbage)
RabbitIo(env) == storage_begin(env.rabbit, {}, env.garbage)

\* set_thing_name of device.c
old_set_thing_name(p, env) ==
    Let(storage_open(p, env, "device"), LAMBDA o :
    IF o.fd < 0 THEN [p |-> o.p, rc |-> o.fd] ELSE
    Let(storage_read_key_string(DeviceIo(env), THING_GROUP, THING_NAME),
        LAMBDA name :
    IF name = NULL \/ name = EMPTY_STRING
        \/ Len(name) >= KNOT_PROTOCOL_DEVICE_NAME_LEN
    THEN [p |-> o.p, rc |-> -EINVAL]
    ELSE [p |-> storage_close([o.p EXCEPT !.thing.name = name]), rc |-> 0]))

\* set_rabbit_mq_url of device.c
old_set_rabbit_mq_url(p, env) ==
    Let(storage_open(p, env, "rabbit"), LAMBDA o :
    IF o.fd < 0 THEN [p |-> o.p, rc |-> o.fd] ELSE
    Let(storage_read_key_string(RabbitIo(env), RABBIT_MQ_GROUP, RABBIT_URL),
        LAMBDA url :
    IF url = NULL \/ url = EMPTY_STRING
    THEN [p |-> o.p, rc |-> -EINVAL]
    ELSE [p |-> storage_close([o.p EXCEPT !.thing.rabbitmq_url = url]),
          rc |-> 0]))

set_modbus_slave_properties(p, env) ==
    Let(storage_open(p, env, "device"), LAMBDA o :
    IF o.fd < 0 THEN [p |-> o.p, rc |-> o.fd] ELSE
    Let(storage_read_key_int(DeviceIo(env), THING_GROUP,
                             THING_MODBUS_SLAVE_ID), LAMBDA id :
    IF id.rc = 0 THEN [p |-> o.p, rc |-> -EINVAL] ELSE
    IF id.val < MODBUS_MIN_SLAVE_ID \/ id.val > MODBUS_MAX_SLAVE_ID
    THEN [p |-> o.p, rc |-> -EINVAL] ELSE
    Let(storage_read_key_string(DeviceIo(env), THING_GROUP, THING_MODBUS_URL),
        LAMBDA url :
    IF url = NULL \/ url = EMPTY_STRING
    THEN [p |-> o.p, rc |-> -EINVAL]
    ELSE [p |-> storage_close([o.p EXCEPT !.thing.modbus_slave =
                                    [id |-> id.val, url |-> url]]),
          rc |-> 0])))

\* get_sensor_id: the stored id, or a negative code
get_sensor_id(p, env, group_id) ==
    Let(storage_open(p, env, "device"), LAMBDA o :
    IF o.fd < 0 THEN [p |-> o.p, rc |-> o.fd] ELSE
    Let(storage_read_key_int(DeviceIo(env), group_id, SCHEMA_SENSOR_ID),
        LAMBDA r :
    IF r.rc = 0 THEN [p |-> o.p, rc |-> -EINVAL]
    ELSE [p |-> storage_close(o.p), rc |-> r.val]))

valid_sensor_id(sensor_id, n_of_data_items) ==
    IF sensor_id >= n_of_data_items THEN -EINVAL ELSE 0

\* a slot of data_item nothing was written to yet; set names the members
\* that were written
NoSlot ==
    [sensor_id |-> 0, schema |-> NoSchema,
     config |-> [event_flags |-> {}, lower_limit |-> 0, upper_limit |-> 0,
                 time_sec |-> 0],
     modbus_source |-> [reg_addr |-> 0, bit_offset |-> 0],
     set |-> {}]

\* thing.data_item[sensor_id].member = value.  A slot outside the array is
\* outside the object: the process ends, or the write lands and the run
\* goes on.
SlotWrite(p, env, sensor_id, member, value) ==
    IF sensor_id \notin 0..(p.thing.allocated - 1) /\ env.ub_crash
    THEN [p EXCEPT !.crashed = TRUE]
    ELSE Let(p.thing.data_item, LAMBDA di :
         Let(IF sensor_id \in DOMAIN di THEN di[sensor_id] ELSE NoSlot,
             LAMBDA slot :
         [p EXCEPT !.thing.data_item =
            [j \in DOMAIN di \cup {sensor_id} |->
                IF j = sensor_id
                THEN [slot EXCEPT ![member] = value, !.set = @ \cup {member}]
                ELSE di[j]]]))

\* set_schema of device.c
old_set_schema(p, env, group_id, sensor_id) ==
    Let(storage_open(p, env, "device"), LAMBDA o :
    IF o.fd < 0 THEN [p |-> o.p, rc |-> o.fd] ELSE
    Let(DeviceIo(env), LAMBDA io :
    Let(storage_read_key_string(io, group_id, SCHEMA_SENSOR_NAME),
        LAMBDA name :
    IF name = NULL \/ name = EMPTY_STRING
        \/ Len(name) >= KNOT_PROTOCOL_DATA_NAME_LEN
    THEN [p |-> o.p, rc |-> -EINVAL] ELSE
    Let(storage_read_key_int(io, group_id, SCHEMA_VALUE_TYPE), LAMBDA vt :
    IF vt.rc = 0 THEN [p |-> o.p, rc |-> -EINVAL] ELSE
    Let(storage_read_key_int(io, group_id, SCHEMA_UNIT), LAMBDA unit :
    IF unit.rc = 0 THEN [p |-> o.p, rc |-> -EINVAL] ELSE
    Let(storage_read_key_int(io, group_id, SCHEMA_TYPE_ID), LAMBDA tid :
    IF tid.rc = 0 THEN [p |-> o.p, rc |-> -EINVAL] ELSE
    IF knot_schema_is_valid(tid.val, vt.val, unit.val) # 0
    THEN [p |-> o.p, rc |-> -EINVAL]
    ELSE [p |-> SlotWrite(storage_close(o.p), env, sensor_id, "schema",
                          [name |-> name, value_type |-> vt.val,
                           unit |-> unit.val, type_id |-> tid.val]),
          rc |-> 0]))))))

\* assign_limit: the limit after the call, limit being what it held before
assign_limit(value_type, value, limit) ==
    CASE value_type = KNOT_VALUE_TYPE_INT -> value
      [] value_type = KNOT_VALUE_TYPE_BOOL -> IF value # 0 THEN 1 ELSE 0
      [] OTHER -> limit

\* set_config: config_aux is an automatic variable of which only
\* event_flags is initialised
set_config(p, env, group_id, sensor_id) ==
    Let(storage_open(p, env, "device"), LAMBDA o :
    IF o.fd < 0 THEN [p |-> o.p, rc |-> o.fd] ELSE
    Let(DeviceIo(env), LAMBDA io :
    Let(o.p.thing.data_item[sensor_id].schema.value_type, LAMBDA value_type :
    Let(storage_read_key_int(io, group_id, CONFIG_LOWER_THRESHOLD),
        LAMBDA lower :
    Let(storage_read_key_int(io, group_id, CONFIG_UPPER_THRESHOLD),
        LAMBDA upper :
    Let(storage_read_key_int(io, group_id, CONFIG_TIME_SEC), LAMBDA time :
    Let(storage_read_key_int(io, group_id, CONFIG_CHANGE), LAMBDA change :
    [p |-> SlotWrite(storage_close(o.p), env, sensor_id, "config",
            [event_flags |->
                (IF lower.rc > 0 THEN {KNOT_EVT_FLAG_LOWER_THRESHOLD} ELSE {})
                \cup
                (IF upper.rc > 0 THEN {KNOT_EVT_FLAG_UPPER_THRESHOLD} ELSE {})
                \cup (IF time.rc > 0 THEN {KNOT_EVT_FLAG_TIME} ELSE {})
                \cup (IF change.rc > 0 THEN {KNOT_EVT_FLAG_CHANGE} ELSE {}),
             lower_limit |->
                IF lower.rc > 0
                THEN assign_limit(value_type, lower.val, env.garbage)
                ELSE env.garbage,
             upper_limit |->
                IF upper.rc > 0
                THEN assign_limit(value_type, upper.val, env.garbage)
                ELSE env.garbage,
             time_sec |-> time.val]),
     rc |-> 0])))))))

set_modbus_source_properties(p, env, group_id, sensor_id) ==
    Let(storage_open(p, env, "device"), LAMBDA o :
    IF o.fd < 0 THEN [p |-> o.p, rc |-> o.fd] ELSE
    Let(storage_read_key_int(DeviceIo(env), group_id, MODBUS_REG_ADDRESS),
        LAMBDA reg :
    IF reg.rc = 0 THEN [p |-> o.p, rc |-> -EINVAL] ELSE
    Let(storage_read_key_int(DeviceIo(env), group_id, MODBUS_BIT_OFFSET),
        LAMBDA bit :
    IF bit.rc = 0 THEN [p |-> o.p, rc |-> -EINVAL]
    ELSE [p |-> SlotWrite(storage_close(o.p), env, sensor_id, "modbus_source",
                          [reg_addr |-> reg.val, bit_offset |-> bit.val]),
          rc |-> 0])))

\* get_number_of_data_items: the number of data-item groups of the source
get_number_of_data_items(env) == Len(env.device.order)

\* the loop of set_data_items of device.c, from the i-th group on
RECURSIVE old_set_data_items_from(_, _, _)
old_set_data_items_from(p, env, i) ==
    IF i > Len(env.device.order) THEN [p |-> p, rc |-> 0] ELSE
    Let(env.device.order[i], LAMBDA group_id :
    Let(get_sensor_id(p, env, group_id), LAMBDA s :
    IF valid_sensor_id(s.rc, get_number_of_data_items(env)) < 0
    THEN [p |-> s.p, rc |-> -EINVAL] ELSE
    Let(SlotWrite(s.p, env, s.rc, "sensor_id", s.rc), LAMBDA p1 :
    IF p1.crashed THEN [p |-> p1, rc |-> -EINVAL] ELSE
    Let(old_set_schema(p1, env, group_id, s.rc), LAMBDA a :
    IF a.rc < 0 \/ a.p.crashed THEN [p |-> a.p, rc |-> -EINVAL] ELSE
    Let(set_config(a.p, env, group_id, s.rc), LAMBDA b :
    IF b.rc < 0 \/ b.p.crashed THEN [p |-> b.p, rc |-> -EINVAL] ELSE
    Let(set_modbus_source_properties(b.p, env, group_id, s.rc), LAMBDA c :
    IF c.rc < 0 \/ c.p.crashed THEN [p |-> c.p, rc |-> -EINVAL]
    ELSE old_set_data_items_from(c.p, env, i + 1)))))))

\* set_data_items of device.c.  The result of storage_open is not looked
\* at: on a source that did not open, the enumeration has no object to
\* read, which ends the process or enumerates nothing.
old_set_data_items(p, env) ==
    Let(storage_open(p, env, "device"), LAMBDA o :
    IF o.fd < 0
    THEN IF env.ub_crash
         THEN [p |-> [o.p EXCEPT !.crashed = TRUE], rc |-> -EINVAL]
         ELSE IF ~env.alloc_ok THEN [p |-> o.p, rc |-> -EINVAL]
         ELSE [p |-> [o.p EXCEPT !.thing.allocated = 0], rc |-> 0]
    ELSE IF ~env.alloc_ok THEN [p |-> o.p, rc |-> -EINVAL]
    ELSE old_set_data_items_from(
            storage_close([o.p EXCEPT !.thing.allocated =
                                get_number_of_data_items(env)]),
            env, 1))

\* device_set_properties: only -EINVAL stops the load
device_set_properties(env) ==
    Let(old_set_thing_name(LegacyStart, env), LAMBDA a :
    IF a.rc = -EINVAL THEN a ELSE
    Let(old_set_rabbit_mq_url(a.p, env), LAMBDA b :
    IF b.rc = -EINVAL THEN b ELSE
    Let(set_modbus_slave_properties(b.p, env), LAMBDA c :
    IF c.rc = -EINVAL THEN c ELSE
    Let(old_set_data_items(c.p, env), LAMBDA d :
    IF d.rc = -EINVAL THEN d ELSE [p |-> d.p, rc |-> 0]))))

device_start(env) ==
    Let(device_set_properties(env), LAMBDA r :
        [p |-> r.p, rc |-> IF r.rc # 0 THEN -EINVAL ELSE 0])

----------------------------------------------------------------------------
(* Inputs *)

\* a string longer than every length limit of the program
LongString ==
    "0123456789012345678901234567890123456789012345678901234567890123456789"

\* values an uninitialised int may hold
GarbageInts == {-1, 8}

SensorIds == {-1, 0, 1, 5}

GoodGroup(sid) ==
    [k \in {SCHEMA_SENSOR_ID, SCHEMA_SENSOR_NAME, SCHEMA_VALUE_TYPE,
            SCHEMA_UNIT, SCHEMA_TYPE_ID, DATA_NAME_SPACE_INDEX,
            DATA_IP_ELEMENT_SIZE, DATA_REG_ADDRESS, DATA_VALUE_TYPE_SIZE} |->
        CASE k = SCHEMA_SENSOR_ID -> sid
          [] k = SCHEMA_SENSOR_NAME -> "temp"
          [] k = SCHEMA_VALUE_TYPE -> KNOT_VALUE_TYPE_INT
          [] k = SCHEMA_UNIT -> 1
          [] k = SCHEMA_TYPE_ID -> 1
          [] k = DATA_NAME_SPACE_INDEX -> 0
          [] k = DATA_IP_ELEMENT_SIZE -> 1
          [] k = DATA_REG_ADDRESS -> 0
          [] k = DATA_VALUE_TYPE_SIZE -> 32]

With(g, key, value) ==
    [k \in DOMAIN g \cup {key} |-> IF k = key THEN value ELSE g[k]]

Without(g, key) == [k \in DOMAIN g \ {key} |-> g[k]]

\* a group with its three event keys and its change key
EventsGroup(sid) ==
    With(With(With(With(GoodGroup(sid), EVENT_TIME_SEC, 10),
                   EVENT_LOWER_THRESHOLD, 1),
              EVENT_UPPER_THRESHOLD, 5),
         EVENT_CHANGE, EVENT_CHANGE_TRUE)

\* a group whose unit does not go with its type
BadSchemaGroup(sid) == With(GoodGroup(sid), SCHEMA_UNIT, 2)

\* a group that does not say the bit size of its value
NoSizeGroup(sid) == Without(GoodGroup(sid), DATA_VALUE_TYPE_SIZE)

ValidGroupChoices ==
    {GoodGroup(sid) : sid \in SensorIds} \cup {EventsGroup(0), EventsGroup(1)}

GroupChoices ==
    ValidGroupChoices \cup {BadSchemaGroup(1), NoSizeGroup(1)}

SeqsUpTo(S, n) == UNION {[1..m -> S] : m \in 0..n}

\* the names of the data-item groups, in the source's order
GroupName(i) ==
    CASE i = 1 -> "DataItem_0" [] i = 2 -> "DataItem_1"
      [] i = 3 -> "DataItem_2" [] OTHER -> "DataItem_3"

GoodThingGroup ==
    [k \in {THING_NAME, DRIVER_URL, DRIVER_PROTOCOL_TYPE, DRIVER_ID,
            DATA_TYPE_ENDIANNESS} |->
        CASE k = THING_NAME -> "thing"
          [] k = DRIVER_URL -> "tcp://host"
          [] k = DRIVER_PROTOCOL_TYPE -> "modbus"
          [] k = DRIVER_ID -> 1
          [] k = DATA_TYPE_ENDIANNESS -> 0]

ThingGroupChoices ==
    { GoodThingGroup,
      With(GoodThingGroup, THING_NAME, ""),
      Without(GoodThingGroup, DRIVER_URL),
      With(GoodThingGroup, DRIVER_LOGIN, LongString),
      Without(GoodThingGroup, DRIVER_ID) }

\* the device source with the given thing group and data-item groups
DeviceFile(tg, items) ==
    [groups |-> [n \in {THING_GROUP} \cup {GroupName(i) : i \in 1..Len(items)}
                    |-> IF n = THING_GROUP THEN tg
                        ELSE items[CHOOSE i \in 1..Len(items) :
                                        GroupName(i) = n]],
     order |-> [i \in 1..Len(items) |-> GroupName(i)]]

DeviceFiles ==
    {DeviceFile(tg, items) :
        tg \in ThingGroupChoices, items \in SeqsUpTo(GroupChoices, MaxGroups)}

CloudFile(url, user_token) ==
    [groups |-> [n \in {CLOUD_GROUP} |->
                    [k \in {RABBIT_URL, THING_USER_TOKEN} |->
                        IF k = RABBIT_URL THEN url ELSE user_token]],
     order |-> <<>>]

GoodCloudFile == CloudFile("amqp://host", "usertoken")

CloudFiles ==
    {GoodCloudFile, CloudFile("", "usertoken"), CloudFile("amqp://host", "")}

CredFile(id, token) ==
    [groups |-> [n \in {CREDENTIALS_GROUP} |->
                    [k \in {CREDENTIALS_THING_ID, CREDENTIALS_THING_TOKEN} |->
                        IF k = CREDENTIALS_THING_ID THEN id ELSE token]],
     order |-> <<>>]

CredFiles == {CredFile("", ""), CredFile("id0", "tok0")}

\* the sources of the earlier loader
LegacyThingGroup ==
    [k \in {THING_NAME, THING_MODBUS_SLAVE_ID, THING_MODBUS_URL} |->
        CASE k = THING_NAME -> "thing"
          [] k = THING_MODBUS_SLAVE_ID -> 1
          [] k = THING_MODBUS_URL -> "tcp://host"]

LegacyThingGroupChoices ==
    { LegacyThingGroup,
      With(LegacyThingGroup, THING_NAME, ""),
      Without(LegacyThingGroup, THING_MODBUS_SLAVE_ID) }

LegacyGroup(sid) ==
    [k \in {SCHEMA_SENSOR_ID, SCHEMA_SENSOR_NAME, SCHEMA_VALUE_TYPE,
            SCHEMA_UNIT, SCHEMA_TYPE_ID, MODBUS_REG_ADDRESS,
            MODBUS_BIT_OFFSET} |->
        CASE k = SCHEMA_SENSOR_ID -> sid
          [] k = SCHEMA_SENSOR_NAME -> "temp"
          [] k = SCHEMA_VALUE_TYPE -> KNOT_VALUE_TYPE_INT
          [] k = SCHEMA_UNIT -> 1
          [] k = SCHEMA_TYPE_ID -> 1
          [] k = MODBUS_REG_ADDRESS -> 0
          [] k = MODBUS_BIT_OFFSET -> 0]

LegacyEventsGroup(sid) ==
    With(With(With(With(LegacyGroup(sid), CONFIG_TIME_SEC, 10),
                   CONFIG_LOWER_THRESHOLD, 1),
              CONFIG_UPPER_THRESHOLD, 5),
         CONFIG_CHANGE, 1)

\* a group of raw values that stores thresholds
LegacyRawEventsGroup(sid) ==
    With(With(With(LegacyEventsGroup(sid), SCHEMA_VALUE_TYPE,
                   KNOT_VALUE_TYPE_RAW),
              SCHEMA_TYPE_ID, 4),
         SCHEMA_UNIT, 0)

LegacyGroupChoices ==
    {LegacyGroup(sid) : sid \in SensorIds} \cup
    { LegacyEventsGroup(0), LegacyRawEventsGroup(1),
      Without(LegacyGroup(0), SCHEMA_SENSOR_ID),
      With(LegacyGroup(1), SCHEMA_UNIT, 2),
      Without(LegacyGroup(1), MODBUS_BIT_OFFSET) }

LegacyDeviceFiles ==
    {DeviceFile(tg, items) :
        tg \in LegacyThingGroupChoices,
        items \in SeqsUpTo(LegacyGroupChoices, MaxGroups)}

RabbitFile(url) ==
    [groups |-> [n \in {RABBIT_MQ_GROUP} |-> [k \in {RABBIT_URL} |-> url]],
     order |-> <<>>]

RabbitFiles == {RabbitFile("amqp://host"), RabbitFile("")}

\* what storage_open gives for each source: at most one source fails
LegacyOpenErrs ==
    {[s \in {"device", "rabbit"} |-> 0]} \cup
    {[s \in {"device", "rabbit"} |-> IF s = f THEN e ELSE 0] :
        f \in {"device", "rabbit"}, e \in {-EINVAL, -ENOENT}}

\* the arguments valid_bit_size is applied to: the sizes of the table,
\* their neighbours and other sizes; the value types and both values next
\* to their range
BitSizes == {-1, 0, 1, 2, 8, 16, 24, 32, 33, 64, 65, 128}
ValueTypes == 0..8

\* a group that stores the bit size and the value type, with a type id and
\* a unit that go with the value type
BitSizeGroup(bit_size, value_type) ==
    With(With(With(With(GoodGroup(0), DATA_VALUE_TYPE_SIZE, bit_size),
                   SCHEMA_VALUE_TYPE, value_type),
              SCHEMA_TYPE_ID,
              IF value_type = KNOT_VALUE_TYPE_BOOL THEN 3 ELSE 1),
         SCHEMA_UNIT, IF value_type = KNOT_VALUE_TYPE_BOOL THEN 0 ELSE 1)

BitSizeGroups ==
    {BitSizeGroup(b, vt) :
        b \in {1, 8, 16, 24, 32, 64},
        vt \in {KNOT_VALUE_TYPE_INT, KNOT_VALUE_TYPE_FLOAT,
                KNOT_VALUE_TYPE_BOOL}}
    \cup {NoSizeGroup(1)}

Sources == {"device", "cloud", "credentials"}

\* at most one source fails to open in one run of the Loader
OpenFailures == {{}} \cup {{f} : f \in Sources}

\* the writes of one call that fail, by position.  A call of the credential
\* manager makes at most three writes.
CredFaultSets == SUBSET (1..3)

\* A call of the Updater makes at most eight writes, and at most two of them
\* fail: the first failure ends update_schema_data_item and the next one
\* ends update_event_data_item.
UpdateFaultSets == {F \in SUBSET (1..8) : Cardinality(F) <= 2}

Ids == {"id1"}
Tokens == {"tok1", "", LongString}

CommandSchemas ==
    { [name |-> "volt", value_type |-> KNOT_VALUE_TYPE_FLOAT, unit |-> 1,
       type_id |-> 1],
      [name |-> "blob", value_type |-> KNOT_VALUE_TYPE_RAW, unit |-> 0,
       type_id |-> 4] }

CommandEvents ==
    { [event_flags |-> {KNOT_EVT_FLAG_UNREGISTERED, KNOT_EVT_FLAG_TIME},
       lower_limit |-> 0, upper_limit |-> 0, time_sec |-> 30],
      [event_flags |-> {KNOT_EVT_FLAG_TIME, KNOT_EVT_FLAG_CHANGE,
                        KNOT_EVT_FLAG_LOWER_THRESHOLD,
                        KNOT_EVT_FLAG_UPPER_THRESHOLD},
       lower_limit |-> 2, upper_limit |-> 7, time_sec |-> 30],
      [event_flags |-> {KNOT_EVT_FLAG_TIME},
       lower_limit |-> 0, upper_limit |-> 0, time_sec |-> 30],
      [event_flags |-> {},
       lower_limit |-> 0, upper_limit |-> 0, time_sec |-> 0] }

CommandSensorIds == {0, 7}

Commands ==
    [sensor_id : CommandSensorIds, schema : CommandSchemas,
     event : CommandEvents]

NoCommand ==
    [sensor_id |-> 0, schema |-> NoSchema, event |-> NoEvent]

----------------------------------------------------------------------------
(* State machine *)

NoOp ==
    [op |-> "none", rc |-> 0, opens |-> 0, closes |-> 0, log |-> <<>>,
     found |-> 0, source |-> "none", id |-> "", token |-> "",
     config |-> NoCommand, crashed |-> FALSE, bit_size |-> 0,
     value_type |-> 0]

InitWith(devices, clouds, creds) ==
    /\ version = "properties.c"
    /\ legacy = LegacyEmptyThing
    /\ deviceFile \in devices
    /\ cloudFile \in clouds
    /\ credFile \in creds
    /\ thing = EmptyThing
    /\ loaded = FALSE
    /\ open_fds = 0
    /\ nupdates = 0
    /\ last = NoOp

\* the program built with the earlier loader
InitLegacy ==
    /\ version = "device.c"
    /\ legacy = LegacyEmptyThing
    /\ deviceFile \in LegacyDeviceFiles
    /\ cloudFile \in RabbitFiles
    /\ credFile = CredFile("", "")
    /\ thing = EmptyThing
    /\ loaded = FALSE
    /\ open_fds = 0
    /\ nupdates = 0
    /\ last = NoOp

Init == InitWith(DeviceFiles, CloudFiles, CredFiles) \/ InitLegacy

\* the program starts: the Loader fills a fresh Thing Model
CreateDevice ==
    /\ version = "properties.c"
    /\ \E failing \in OpenFailures, garbage \in GarbageInts :
        \E r \in {properties_create_device(EmptyThing, deviceFile, cloudFile,
                                          credFile, failing, garbage)} :
            /\ thing' = r.thing
            /\ loaded' = (r.rc = 0)
            /\ open_fds' = open_fds + r.opens - r.closes
            /\ last' = [NoOp EXCEPT !.op = "create_device", !.rc = r.rc,
                            !.opens = r.opens, !.closes = r.closes,
                            !.source = r.source]
    /\ UNCHANGED <<credFile, deviceFile, cloudFile, nupdates, version, legacy>>

\* the program with the earlier loader starts
DeviceStart ==
    /\ version = "device.c"
    /\ \E open_err \in LegacyOpenErrs, alloc_ok \in BOOLEAN,
          garbage \in GarbageInts, ub_crash \in BOOLEAN :
        \E r \in {device_start([device |-> deviceFile, rabbit |-> cloudFile,
                                open_err |-> open_err, alloc_ok |-> alloc_ok,
                                garbage |-> garbage, ub_crash |-> ub_crash])} :
            /\ legacy' = r.p.thing
            /\ open_fds' = r.p.opens - r.p.closes
            /\ last' = [NoOp EXCEPT !.op = "device_start", !.rc = r.rc,
                            !.opens = r.p.opens, !.closes = r.p.closes,
                            !.crashed = r.p.crashed]
    /\ UNCHANGED <<credFile, deviceFile, cloudFile, thing, loaded, nupdates,
                   version>>

\* a configuration command arrives
UpdateDataItem ==
    /\ nupdates < MaxUpdates
    /\ loaded
    /\ \E config \in Commands, open_ok \in BOOLEAN,
          faults \in UpdateFaultSets :
        \E r \in {properties_update_data_item(thing, deviceFile, config,
                                             open_ok, faults)} :
            /\ thing' = r.thing
            /\ deviceFile' = r.file
            /\ open_fds' = open_fds + r.opens - r.closes
            /\ last' = [NoOp EXCEPT !.op = "update_data_item", !.rc = r.rc,
                            !.opens = r.opens, !.closes = r.closes,
                            !.log = r.log, !.found = r.found,
                            !.config = config]
    /\ nupdates' = nupdates + 1
    /\ UNCHANGED <<credFile, cloudFile, loaded, version, legacy>>

StoreCredentials ==
    /\ loaded
    /\ \E id \in Ids, token \in Tokens, open_ok \in BOOLEAN,
          faults \in CredFaultSets :
        \E r \in {properties_store_credentials(credFile, id, token, open_ok,
                                              faults)} :
            /\ credFile' = r.file
            /\ open_fds' = open_fds + r.opens - r.closes
            /\ last' = [NoOp EXCEPT !.op = "store_credentials", !.rc = r.rc,
                            !.opens = r.opens, !.closes = r.closes,
                            !.log = r.log, !.id = id, !.token = token]
    /\ UNCHANGED <<deviceFile, cloudFile, thing, loaded, nupdates, version,
                   legacy>>

ClearCredentials ==
    /\ loaded
    /\ \E open_ok \in BOOLEAN, faults \in CredFaultSets :
        \E r \in {properties_clear_credentials(thing, credFile, open_ok, faults)} :
            /\ thing' = r.thing
            /\ credFile' = r.file
            /\ open_fds' = open_fds + r.opens - r.closes
            /\ last' = [NoOp EXCEPT !.op = "clear_credentials", !.rc = r.rc,
                            !.opens = r.opens, !.closes = r.closes,
                            !.log = r.log]
    /\ UNCHANGED <<deviceFile, cloudFile, loaded, nupdates, version, legacy>>

\* valid_bit_size applied on its own to a pair of arguments, before the
\* program has done anything; it reads and changes nothing of the state
ValidBitSize ==
    /\ last.op \in {"none", "valid_bit_size"}
    /\ \E bit_size \in BitSizes, value_type \in ValueTypes :
        last' = [NoOp EXCEPT !.op = "valid_bit_size",
                             !.rc = valid_bit_size(bit_size, value_type),
                             !.bit_size = bit_size,
                             !.value_type = value_type]
    /\ UNCHANGED <<credFile, deviceFile, cloudFile, thing, loaded, open_fds,
                   nupdates, version, legacy>>

Next ==
    \/ CreateDevice
    \/ DeviceStart
    \/ ValidBitSize
    \/ UpdateDataItem
    \/ StoreCredentials
    \/ ClearCredentials

Spec == Init /\ [][Next]_vars

\* The two loaders alone, on every device, cloud and credentials source.
SpecLoader == Init /\ [][CreateDevice \/ DeviceStart]_vars

\* the device sources whose groups are all acceptable
UpdaterSensorIds == {0, 1}

UpdaterDeviceFiles ==
    {DeviceFile(GoodThingGroup, items) :
        items \in SeqsUpTo({GoodGroup(sid) : sid \in UpdaterSensorIds} \cup
                           {EventsGroup(sid) : sid \in UpdaterSensorIds},
                           MaxGroups)}

\* The Loader and the Updater on an acceptable device source.
SpecUpdater ==
    /\ InitWith(UpdaterDeviceFiles, {GoodCloudFile}, {CredFile("id0", "tok0")})
    /\ [][CreateDevice \/ UpdateDataItem]_vars

\* The Loader and the credential manager.
SpecCredentials ==
    /\ InitWith({DeviceFile(GoodThingGroup, <<GoodGroup(0)>>)},
                {GoodCloudFile}, CredFiles)
    /\ [][CreateDevice \/ StoreCredentials \/ ClearCredentials]_vars


\* valid_bit_size on its own, and the Loader on groups of every bit size
SpecBitSize ==
    /\ InitWith({DeviceFile(GoodThingGroup, <<g>>) : g \in BitSizeGroups},
                {GoodCloudFile}, {CredFile("id0", "tok0")})
    /\ [][CreateDevice \/ ValidBitSize]_vars

----------------------------------------------------------------------------
(* Properties: credential manager *)

\* the stored value of a key of the credentials source
Stored(file, key) == file.groups[CREDENTIALS_GROUP][key]

\* the log holds a write of key that failed / that succeeded
WriteFailed(log, key) ==
    \E i \in 1..Len(log) :
        log[i].kind = "write" /\ log[i].key = key /\ ~log[i].ok

WriteDone(log, key) ==
    \E i \in 1..Len(log) :
        log[i].kind = "write" /\ log[i].key = key /\ log[i].ok

WriteAttempted(log, key) ==
    \E i \in 1..Len(log) : log[i].kind = "write" /\ log[i].key = key

\* C1: whenever the id write of properties_store_credentials fails, the
\* call returns an error and the persisted thing token reads back empty,
\* so the store never holds the new non-empty token without its id.
C1_TokenRolledBack ==
    (last.op = "store_credentials" /\ WriteFailed(last.log, CREDENTIALS_THING_ID))
        => /\ last.rc < 0
           /\ Stored(credFile, CREDENTIALS_THING_TOKEN) = EMPTY_STRING

\* C2: properties_store_credentials with a token longer than
\* KNOT_PROTOCOL_TOKEN_LEN returns an error, opens no source, writes
\* nothing, and leaves the persisted credentials and the Thing Model as
\* they were.
C2_LongTokenRejected ==
    [][(last'.op = "store_credentials"
            /\ Len(last'.token) > KNOT_PROTOCOL_TOKEN_LEN)
        => /\ last'.rc < 0
           /\ last'.opens = 0
           /\ last'.log = <<>>
           /\ credFile' = credFile
           /\ thing' = thing]_vars

\* a long token was refused while credentials were stored
C2_Witness ==
    /\ last.op = "store_credentials"
    /\ Len(last.token) > KNOT_PROTOCOL_TOKEN_LEN
    /\ last.rc < 0
    /\ Stored(credFile, CREDENTIALS_THING_TOKEN) = "tok0"
    /\ Stored(credFile, CREDENTIALS_THING_ID) = "id0"

C4_ClearedIffErased ==
    [][last'.op = "clear_credentials"
        => /\ IF WriteDone(last'.log, CREDENTIALS_THING_ID)
              THEN /\ thing'.id = EMPTY_STRING
                   /\ Stored(credFile', CREDENTIALS_THING_ID) = EMPTY_STRING
              ELSE /\ thing'.id = thing.id
                   /\ Stored(credFile', CREDENTIALS_THING_ID)
                        = Stored(credFile, CREDENTIALS_THING_ID)
           /\ IF WriteDone(last'.log, CREDENTIALS_THING_TOKEN)
              THEN /\ thing'.token = EMPTY_STRING
                   /\ Stored(credFile', CREDENTIALS_THING_TOKEN) = EMPTY_STRING
              ELSE /\ thing'.token = thing.token
                   /\ Stored(credFile', CREDENTIALS_THING_TOKEN)
                        = Stored(credFile, CREDENTIALS_THING_TOKEN)]_vars

\* the token was erased and the id erase failed: the id is kept in memory
C4_Witness ==
    /\ last.op = "clear_credentials"
    /\ WriteDone(last.log, CREDENTIALS_THING_TOKEN)
    /\ WriteFailed(last.log, CREDENTIALS_THING_ID)
    /\ thing.token = EMPTY_STRING
    /\ thing.id = "id0"


----------------------------------------------------------------------------
(* Properties: loader *)

\* the sensor ids the data-item groups of a source store, in the order the
\* groups are enumerated
StoredSensorIds(file) ==
    [i \in 1..Len(file.order) |-> file.groups[file.order[i]][SCHEMA_SENSOR_ID]]

HasDuplicateSensorId(file) ==
    \E i, j \in 1..Len(file.order) :
        i # j /\ StoredSensorIds(file)[i] = StoredSensorIds(file)[j]

RegisteredSensorIds(t) ==
    [i \in 1..Len(t.data_items) |-> t.data_items[i].sensor_id]

\* C5: a device source in which two data-item groups store the same
\* sensor id fails the load, and the registry never holds two items with
\* one sensor id.
C5_DuplicateFailsLoad ==
    /\ (last.op = "create_device" /\ HasDuplicateSensorId(deviceFile))
            => (last.rc < 0 /\ ~loaded)
    /\ \A i, j \in 1..Len(thing.data_items) :
            i # j => thing.data_items[i].sensor_id # thing.data_items[j].sensor_id

\* two acceptable groups store sensor id 0: the first one was registered
\* and the load failed at the second
C5_Witness ==
    /\ last.op = "create_device"
    /\ last.rc < 0
    /\ last.source = "device"
    /\ deviceFile = DeviceFile(GoodThingGroup, <<GoodGroup(0), EventsGroup(0)>>)
    /\ RegisteredSensorIds(thing) = <<0>>

\* C6: a device source with a data-item group whose sensor id is outside
\* 0 .. n-1, n being the number of its data-item groups, fails the load,
\* and no item with such an id is registered; this holds of the loader of
\* properties.c and of the loader of device.c.
C6_OutOfRangeFailsLoad ==
    LET n == Len(deviceFile.order)
        out == \E i \in 1..n : StoredSensorIds(deviceFile)[i] \notin 0..(n - 1)
    IN
    /\ last.op = "create_device" =>
        /\ out => last.rc < 0
        /\ \A i \in 1..Len(thing.data_items) :
                thing.data_items[i].sensor_id \in 0..(n - 1)
    /\ last.op = "device_start" =>
        /\ out => last.rc < 0
        /\ DOMAIN legacy.data_item \subseteq 0..(n - 1)

\* the Loader stopped in the device source / in the cloud source after it
\* had opened it
FailedInDevice ==
    last.op = "create_device" /\ last.rc < 0 /\ last.source = "device"
        /\ last.opens = 1

FailedInCloud ==
    last.op = "create_device" /\ last.rc < 0 /\ last.source = "cloud"
        /\ last.opens = 2

\* C7, as stated: when the Loader fails on a field or a group of a source,
\* nothing of that source is in the Thing Model.
C7_NothingApplied ==
    /\ FailedInDevice => thing = EmptyThing
    /\ FailedInCloud => (thing.rabbitmq_url = NULL /\ thing.user_token = NULL)

\* C7, amended: a failed load returns an error and does not register the
\* group it failed on, but what the source supplied before the failure is
\* in the Thing Model: the thing name, the driver fields, the items of the
\* groups enumerated before the failing one, the broker url.
C7_EarlierFieldsApplied ==
    LET tg == deviceFile.groups[THING_GROUP]
        k == Len(thing.data_items)
        n == Len(deviceFile.order)
    IN
    /\ FailedInDevice =>
        /\ ~loaded
        /\ tg[THING_NAME] # EMPTY_STRING => thing.name = tg[THING_NAME]
        /\ k = 0 \/ k < n
        /\ \A i \in 1..k :
                thing.data_items[i].sensor_id = StoredSensorIds(deviceFile)[i]
        /\ tg = GoodThingGroup =>
            /\ thing.driver_url = tg[DRIVER_URL]
            /\ thing.protocol = tg[DRIVER_PROTOCOL_TYPE]
            /\ thing.driver_id = tg[DRIVER_ID]
            /\ k < n
            /\ deviceFile.groups[deviceFile.order[k + 1]] \in ValidGroupChoices
                    => StoredSensorIds(deviceFile)[k + 1]
                            \in {StoredSensorIds(deviceFile)[i] : i \in 1..k}
    /\ FailedInCloud =>
        /\ ~loaded
        /\ thing.name = tg[THING_NAME]
        /\ RegisteredSensorIds(thing) = StoredSensorIds(deviceFile)
        /\ LET url == cloudFile.groups[CLOUD_GROUP][RABBIT_URL] IN
           IF url # EMPTY_STRING
           THEN thing.rabbitmq_url = url /\ thing.user_token = NULL
           ELSE thing.rabbitmq_url = NULL

\* the second group is refused after the thing fields and the first group
\* were applied
C7_Witness ==
    /\ FailedInDevice
    /\ deviceFile = DeviceFile(GoodThingGroup, <<GoodGroup(0), NoSizeGroup(1)>>)
    /\ thing.name = "thing"
    /\ RegisteredSensorIds(thing) = <<0>>

----------------------------------------------------------------------------
(* Properties: updater *)

SchemaKeys ==
    <<SCHEMA_TYPE_ID, SCHEMA_UNIT, SCHEMA_VALUE_TYPE, SCHEMA_SENSOR_NAME>>

EventKeys ==
    <<[flag |-> KNOT_EVT_FLAG_TIME, key |-> EVENT_TIME_SEC],
      [flag |-> KNOT_EVT_FLAG_CHANGE, key |-> EVENT_CHANGE],
      [flag |-> KNOT_EVT_FLAG_LOWER_THRESHOLD, key |-> EVENT_LOWER_THRESHOLD],
      [flag |-> KNOT_EVT_FLAG_UPPER_THRESHOLD, key |-> EVENT_UPPER_THRESHOLD]>>

Range(f) == {f[i] : i \in DOMAIN f}

\* the writes of the log whose key is one of keys, in the order they were
\* attempted
WritesOf(log, keys) ==
    SelectSeq(log, LAMBDA e : e.kind = "write" /\ e.key \in keys)

AnyWriteFailed(log) ==
    \E i \in 1..Len(log) : log[i].kind = "write" /\ ~log[i].ok

\* the event keys whose flag the command sets, in the order of the update
WantedEventKeys(config) ==
    IF KNOT_EVT_FLAG_UNREGISTERED \in config.event.event_flags THEN <<>>
    ELSE SelectSeq(EventKeys, LAMBDA e : e.flag \in config.event.event_flags)

\* a threshold of a value type that storage has no limit type for
RefusedLimit(config, key) ==
    /\ key \in {EVENT_LOWER_THRESHOLD, EVENT_UPPER_THRESHOLD}
    /\ config.schema.value_type \notin StorableValueTypes

\* writes is what was attempted of wanted: a prefix of it, that ends at the
\* first write that failed or before the first threshold that was refused
StopsAtFirstFailure(writes, wanted, config) ==
    /\ Len(writes) <= Len(wanted)
    /\ \A i \in 1..Len(writes) :
        /\ writes[i].key = wanted[i]
        /\ ~RefusedLimit(config, wanted[i])
        /\ i < Len(writes) => writes[i].ok
    /\ Len(writes) < Len(wanted) =>
        \/ Len(writes) > 0 /\ ~writes[Len(writes)].ok
        \/ RefusedLimit(config, wanted[Len(writes) + 1])

UpdatedGroup == deviceFile.groups[deviceFile.order[last.found]]

\* C8: properties_update_data_item with a sensor id that no group of the
\* device source stores changes neither the source nor the Thing Model,
\* and returns success when the source could be opened.
C8_UnknownSensorIdNoOp ==
    [][(last'.op = "update_data_item"
            /\ \A i \in 1..Len(deviceFile.order) :
                    StoredSensorIds(deviceFile)[i] # last'.config.sensor_id)
        => /\ deviceFile' = deviceFile
           /\ thing' = thing
           /\ last'.log = <<>>
           /\ last'.opens = 1 => last'.rc = 0]_vars

\* a command for sensor id 7 was handled on a source that has groups
C8_Witness ==
    /\ last.op = "update_data_item"
    /\ last.config.sensor_id = 7
    /\ last.opens = 1
    /\ last.rc = 0
    /\ Len(deviceFile.order) = 2
    /\ Len(thing.data_items) = 2

Removed(log, key) ==
    \E i \in 1..Len(log) : log[i].kind = "remove" /\ log[i].key = key

\* the update of the event sub-fields got as far as the i-th of them: every
\* sub-field before it whose flag is set was written
EventFieldReached(i) ==
    \A j \in 1..(i - 1) :
        EventKeys[j].flag \in last.config.event.event_flags
            => WriteDone(last.log, EventKeys[j].key)

EventUpdateCalled ==
    /\ last.op = "update_data_item"
    /\ last.found # 0
    /\ KNOT_EVT_FLAG_UNREGISTERED \notin last.config.event.event_flags

SchemaField(schema, key) ==
    CASE key = SCHEMA_TYPE_ID -> schema.type_id
      [] key = SCHEMA_UNIT -> schema.unit
      [] key = SCHEMA_VALUE_TYPE -> schema.value_type
      [] key = SCHEMA_SENSOR_NAME -> schema.name

\* C12: an update for a known sensor id with KNOT_EVT_FLAG_UNREGISTERED set
\* writes the schema fields of the group from the command (each write that
\* succeeds stores the command's value, and on success all four hold it)
\* and neither writes nor removes any of the four event keys of the group.
C12_UnregisteredLeavesEventKeys ==
    [][(/\ last'.op = "update_data_item"
        /\ last'.found # 0
        /\ KNOT_EVT_FLAG_UNREGISTERED \in last'.config.event.event_flags)
        => LET before == deviceFile.groups[deviceFile.order[last'.found]]
               after == deviceFile'.groups[deviceFile'.order[last'.found]]
           IN
           /\ \A i \in 1..4 :
                /\ ~WriteAttempted(last'.log, EventKeys[i].key)
                /\ ~Removed(last'.log, EventKeys[i].key)
                /\ EventKeys[i].key \in DOMAIN after
                        <=> EventKeys[i].key \in DOMAIN before
                /\ EventKeys[i].key \in DOMAIN before
                        => after[EventKeys[i].key] = before[EventKeys[i].key]
           /\ WriteAttempted(last'.log, SCHEMA_TYPE_ID)
           /\ \A k \in Range(SchemaKeys) :
                /\ WriteDone(last'.log, k)
                        => after[k] = SchemaField(last'.config.schema, k)
                /\ last'.rc = 0 => WriteDone(last'.log, k)]_vars

\* an unregistered command that carries a time was applied to a group with
\* event keys: the schema is the command's, the stored time is the old one
C12_Witness ==
    /\ last.op = "update_data_item"
    /\ last.found # 0
    /\ last.rc = 0
    /\ last.config.event.event_flags
            = {KNOT_EVT_FLAG_UNREGISTERED, KNOT_EVT_FLAG_TIME}
    /\ UpdatedGroup[SCHEMA_SENSOR_NAME] = last.config.schema.name
    /\ {EVENT_TIME_SEC, EVENT_CHANGE, EVENT_LOWER_THRESHOLD,
        EVENT_UPPER_THRESHOLD} \subseteq DOMAIN UpdatedGroup
    /\ UpdatedGroup[EVENT_TIME_SEC] = 10
    /\ last.config.event.time_sec = 30

\* the run of the Loader recorded in l stopped because a source did not
\* open
OpenFailed(l) ==
    \/ l.source = "device" /\ l.opens = 0
    \/ l.source = "cloud" /\ l.opens = 1
    \/ l.source = "credentials" /\ l.opens = 2

\* C13: after properties_update_data_item has written the schema of a
\* command for a stored sensor id, all writes succeeding, a run of the
\* Loader on the same store succeeds and registers an item for that sensor
\* id whose schema is the schema of the command.
C13_RoundTrip ==
    [][(/\ last.op = "update_data_item"
        /\ last.rc = 0
        /\ last.found # 0
        /\ last'.op = "create_device"
        /\ ~OpenFailed(last'))
        => /\ last'.rc = 0
           /\ \E i \in 1..Len(thing'.data_items) :
                /\ thing'.data_items[i].sensor_id = last.config.sensor_id
                /\ thing'.data_items[i].schema = last.config.schema]_vars

----------------------------------------------------------------------------
(* Properties: bit sizes *)

\* the table of bit sizes and the value types each of them admits
BitSizeTable ==
    { <<1, KNOT_VALUE_TYPE_BOOL>>,
      <<8, KNOT_VALUE_TYPE_BOOL>>, <<8, KNOT_VALUE_TYPE_INT>>,
      <<8, KNOT_VALUE_TYPE_UINT>>,
      <<16, KNOT_VALUE_TYPE_INT>>, <<16, KNOT_VALUE_TYPE_UINT>>,
      <<32, KNOT_VALUE_TYPE_INT>>, <<32, KNOT_VALUE_TYPE_UINT>>,
      <<32, KNOT_VALUE_TYPE_FLOAT>>,
      <<64, KNOT_VALUE_TYPE_INT64>>, <<64, KNOT_VALUE_TYPE_UINT64>>,
      <<64, KNOT_VALUE_TYPE_FLOAT>> }

\* C14: valid_bit_size accepts exactly the pairs of the table and rejects
\* every other pair, every bit size outside {1, 8, 16, 32, 64} included;
\* the Loader registers no item whose bit size and value type are not a
\* pair of the table.
C14_BitSizeTable ==
    /\ last.op = "valid_bit_size" =>
        /\ last.rc = 0 <=> <<last.bit_size, last.value_type>> \in BitSizeTable
        /\ last.rc # 0 => last.rc < 0
        /\ last.bit_size \notin {1, 8, 16, 32, 64} => last.rc < 0
    /\ \A i \in 1..Len(thing.data_items) :
        <<thing.data_items[i].props.value_type_size,
          thing.data_items[i].schema.value_type>> \in BitSizeTable

\* a bit size of the table with a value type it does not admit is refused
C14_Witness ==
    /\ last.op = "valid_bit_size"
    /\ last.bit_size = 64
    /\ last.value_type = KNOT_VALUE_TYPE_INT
    /\ last.rc < 0

----------------------------------------------------------------------------
(* Properties: storage handles *)

\* C15: every operation that opens a storage source closes it on every
\* exit path, the failing ones included: once an operation has returned,
\* it has closed as many handles as it opened and no handle is left open.
C15_NoOpenHandles ==
    /\ open_fds = 0
    /\ last.op # "none" => last.closes = last.opens

----------------------------------------------------------------------------
(* Properties: event flags of the loaded items *)

ThresholdFlags ==
    {KNOT_EVT_FLAG_LOWER_THRESHOLD, KNOT_EVT_FLAG_UPPER_THRESHOLD}

\* the value types a threshold can be read as
TypedValueTypes ==
    {KNOT_VALUE_TYPE_INT, KNOT_VALUE_TYPE_FLOAT, KNOT_VALUE_TYPE_BOOL,
     KNOT_VALUE_TYPE_INT64, KNOT_VALUE_TYPE_UINT, KNOT_VALUE_TYPE_UINT64}

\* the key is stored in the group and can be read as the value type
TypedRead(group, e, value_type) ==
    /\ e.key \in DOMAIN group
    /\ e.flag \in ThresholdFlags => value_type \in TypedValueTypes

\* C16: every item the Loader produced carries an event flag exactly when
\* the key of that flag was read from the item's group with the type of
\* the item's schema.value_type: an item of raw or unknown value type
\* carries no threshold flag, and a key that is not stored sets no flag.
\* The i-th item of the registry comes from the i-th group of the device
\* source; a slot of the array of device.c comes from a group that stores
\* the slot's index as its sensor id.
C16_FlagsIffTypedRead ==
    /\ \A i \in 1..Len(thing.data_items) : \A k \in 1..4 :
        EventKeys[k].flag \in thing.data_items[i].event.event_flags
            <=> TypedRead(deviceFile.groups[deviceFile.order[i]],
                          EventKeys[k], thing.data_items[i].schema.value_type)
    /\ \A sid \in DOMAIN legacy.data_item : \A k \in 1..4 :
        ("config" \in legacy.data_item[sid].set
            /\ EventKeys[k].flag \in legacy.data_item[sid].config.event_flags)
        => \E g \in Range(deviceFile.order) :
            /\ SCHEMA_SENSOR_ID \in DOMAIN deviceFile.groups[g]
            /\ deviceFile.groups[g][SCHEMA_SENSOR_ID] = sid
            /\ TypedRead(deviceFile.groups[g], EventKeys[k],
                         legacy.data_item[sid].schema.value_type)

----------------------------------------------------------------------------
(* Properties: what an update leaves alone *)

\* C17: properties_update_data_item changes at most one group of the
\* device source, the first in enumeration order whose stored sensor id is
\* the command's, and no key of any other group; it creates and removes
\* no group, changes no stored sensor id, and inserts and removes no item
\* of the registry.
C17_UpdateFrame ==
    [][last'.op = "update_data_item" =>
        /\ deviceFile'.order = deviceFile.order
        /\ DOMAIN deviceFile'.groups = DOMAIN deviceFile.groups
        /\ \A g \in DOMAIN deviceFile.groups :
            (last'.found = 0 \/ g # deviceFile.order[last'.found])
                => deviceFile'.groups[g] = deviceFile.groups[g]
        /\ last'.found # 0 =>
            /\ last'.found \in 1..Len(deviceFile.order)
            /\ StoredSensorIds(deviceFile)[last'.found]
                    = last'.config.sensor_id
            /\ \A j \in 1..(last'.found - 1) :
                    StoredSensorIds(deviceFile)[j] # last'.config.sensor_id
        /\ StoredSensorIds(deviceFile') = StoredSensorIds(deviceFile)
        /\ RegisteredSensorIds(thing') = RegisteredSensorIds(thing)]_vars

\* the second of two groups was updated, its event keys removed, and the
\* first group holds what it held before
C17_Witness ==
    /\ last.op = "update_data_item"
    /\ last.found = 2
    /\ last.rc = 0
    /\ last.config.event.event_flags = {}
    /\ StoredSensorIds(deviceFile) = <<1, 0>>
    /\ deviceFile.groups[deviceFile.order[1]] = EventsGroup(1)
    /\ UpdatedGroup[SCHEMA_SENSOR_NAME] = last.config.schema.name
    /\ EVENT_TIME_SEC \notin DOMAIN UpdatedGroup
    /\ RegisteredSensorIds(thing) = <<1, 0>>

=============================================================================
